---- MODULE Spec2Model ----
(***************************************************************************)
(* Model of the node-divert add-on (src/windivert.cc, src/node-windivert.h)*)
(*                                                                         *)
(* One WinDivert session object, the JavaScript (consumer) thread that     *)
(* calls its methods and runs the callbacks, the capture thread running    *)
(* WinDivert::ThreadFunction, the driver, and the thread-safe functions    *)
(* (N-API) through which captured packets are handed to the JS thread.     *)
(*                                                                         *)
(* Threads:                                                                *)
(*   JS thread      open, recv, send, close, HelperCalcChecksums, the      *)
(*                  destructor, and the dispatch of queued callbacks.      *)
(*                  jsPc is "idle" when it can run JS code, "closeJoin" /  *)
(*                  "dtorJoin" while it is blocked in recvThread.join().   *)
(*   capture thread loopPc: "none" (no thread), "check" (top of the loop), *)
(*                  "recv" (inside WinDivertRecv), "continue" (receive     *)
(*                  failed, back to the top), "call" (packet read,         *)
(*                  about to BlockingCall), "exit" (left the loop),        *)
(*                  "finished" (ThreadFunction returned).                  *)
(***************************************************************************)
EXTENDS Integers, Sequences, FiniteSets, TLC

(***************************************************************************)
(* Bounds of the model                                                     *)
(***************************************************************************)
MaxPackets == 2        \* packets the driver hands to WinDivertRecv
MaxRecvCalls == 2      \* recv() calls that create a thread-safe function

(***************************************************************************)
(* Program constants                                                       *)
(***************************************************************************)
INVALID_HANDLE_VALUE == 0
DRIVER_HANDLE == 1                \* the value WinDivertOpen returns: the code only
                                  \* compares it with INVALID_HANDLE_VALUE
SIZEOF_WINDIVERT_ADDRESS == 80   \* sizeof(WINDIVERT_ADDRESS), windivert.h 2.x
RESERVED_TAIL == 64              \* the "- 64" of send's length check

Callbacks == {1, 2}                       \* JS functions passed to recv
OpenErrorCodes == {2, 5}          \* one code with an advisory text, one without
DriverErrorCodes == {87}                  \* GetLastError of send/close/checksum
PayloadLens == {20, 40}
AddrLens == {SIZEOF_WINDIVERT_ADDRESS - RESERVED_TAIL - 1,
             SIZEOF_WINDIVERT_ADDRESS - RESERVED_TAIL,
             RESERVED_TAIL}
ChecksumFlags == {0, 1}                   \* 1: WINDIVERT_HELPER_NO_IP_CHECKSUM

VARIABLES
    handle_,      \* WinDivert::handle_ : 0 = INVALID_HANDLE_VALUE, else a driver handle
    closeFlag,    \* WinDivert::closeFlag (std::atomic<int>)
    tsfn,         \* WinDivert::tsfn : 0 = empty, else index into tsfns
    recvThread,   \* WinDivert::recvThread : "empty" or "joinable"
    alive,        \* the object has not been destructed
    proc,         \* "running", or "terminated" once std::terminate was called
    jsPc,         \* JS thread: "idle", "closeJoin", "dtorJoin"
    running,      \* callback invocations in progress on the JS thread
    loopPc,       \* position of the capture thread
    nThreads,     \* capture threads that exist: started, ThreadFunction not returned
    buf,          \* capture thread's packet[] buffer: id of the packet in it, 0 if none
    tsfns,        \* the thread-safe functions created so far
    bridge,       \* queued calls, in the order they reach the JS event loop
    drvOpen,      \* handles the driver has open
    opened,       \* history: a WinDivertOpen call has succeeded
    nRecv,        \* packets WinDivertRecv has returned so far (packet ids 1..nRecv)
    delivered,    \* history: callback invocations started, in order
    lastCall,     \* the last API call that returned: its result, the driver calls made
    hist          \* history of the current registration: close() calls, failed hand-offs

vars == <<handle_, closeFlag, tsfn, recvThread, alive, proc, jsPc, running,
          loopPc, nThreads, buf, tsfns, bridge, drvOpen, opened, nRecv,
          delivered, lastCall, hist>>

(***************************************************************************)
(* Results of API calls. val is a tuple of numbers, msg the advisory text. *)
(***************************************************************************)
Ok(kind, val) == [tag |-> "Ok", kind |-> kind, val |-> val, code |-> 0, msg |-> ""]
Err(kind, code, msg) == [tag |-> "Err", kind |-> kind, val |-> <<>>, code |-> code, msg |-> msg]

NotOpen == Err("NotOpen", 0, "Filter not opened. Use open method first.")
AlreadyOpen == Err("AlreadyOpen", 0, "Filter already opened")

Call(op, result, drv) == [op |-> op, result |-> result, drv |-> drv]

NoHist == [closeCalled |-> FALSE, closeReturned |-> FALSE, recvAtClose |-> 0,
           handoffFailed |-> FALSE]

(***************************************************************************)
(* Thread-safe functions (Napi::ThreadSafeFunction::New(env, fn, name, 0,  *)
(* 1)): maximum queue size 0 (unlimited), initial thread count 1.          *)
(***************************************************************************)
NewTsfn(cb) == [cb |-> cb, threadCount |-> 1, closing |-> FALSE, releases |-> 0]

\* tsfn.Release(): napi_tsfn_release mode; the queue is left as it is.
ReleaseTsfn(ts, t) ==
    IF t = 0 THEN ts
    ELSE [ts EXCEPT ![t].threadCount = IF @ > 0 THEN @ - 1 ELSE 0,
                    ![t].releases = @ + 1]

Pending(t) == {i \in 1..Len(bridge) : bridge[i].t = t}

(***************************************************************************)
(* The guards of the methods                                               *)
(***************************************************************************)
\* open without its check of the handle
OpenGuard_Never(h) == FALSE
OpenGuard(h) == h # INVALID_HANDLE_VALUE      \* open: already opened
RecvGuard(h) == h = INVALID_HANDLE_VALUE      \* recv: not opened
SendGuard(h) == h = INVALID_HANDLE_VALUE      \* send: not opened
\* close without its check of the handle
CloseGuard_Never(h) == FALSE
CloseGuard(h) == h = INVALID_HANDLE_VALUE     \* close: not opened

JsCanCall == proc = "running" /\ alive /\ jsPc = "idle"

Init ==
    /\ handle_ = INVALID_HANDLE_VALUE
    /\ closeFlag \in {0, 1}          \* std::atomic<int> without initializer
    /\ tsfn = 0
    /\ recvThread = "empty"
    /\ alive = TRUE
    /\ proc = "running"
    /\ jsPc = "idle"
    /\ running = <<>>
    /\ loopPc = "none"
    /\ nThreads = 0
    /\ buf = 0
    /\ tsfns = <<>>
    /\ bridge = <<>>
    /\ drvOpen = {}
    /\ opened = FALSE
    /\ nRecv = 0
    /\ delivered = <<>>
    /\ lastCall = Call("new", Ok("Object", <<>>), {})
    /\ hist = NoHist

(***************************************************************************)
(* open()                                                                  *)
(***************************************************************************)
\* The advisory text appended to the error message for well-known codes.
OpenDiagnostic(errorCode) ==
    CASE errorCode = 2 -> "driver files not found"
      [] errorCode = 654 -> "incompatible driver version loaded"
      [] errorCode = 1275 -> "driver blocked"
      [] errorCode = 1753 -> "Base Filtering Engine disabled"
      [] errorCode = 577 -> "invalid digital signature"
      [] OTHER -> ""

\* code = 0: WinDivertOpen returns a handle; otherwise it fails with GetLastError() = code
Open(code) ==
    /\ JsCanCall
    /\ IF OpenGuard(handle_)
       THEN /\ lastCall' = Call("open", AlreadyOpen, {})
            /\ UNCHANGED <<handle_, drvOpen, opened>>
       ELSE IF code = 0
       THEN /\ handle_' = DRIVER_HANDLE
            /\ drvOpen' = drvOpen \cup {DRIVER_HANDLE}
            /\ opened' = TRUE
            /\ lastCall' = Call("open", Ok("Undefined", <<>>), {"WinDivertOpen"})
       ELSE /\ handle_' = INVALID_HANDLE_VALUE
            /\ lastCall' = Call("open",
                                Err("OpenFailed", code, OpenDiagnostic(code)),
                                {"WinDivertOpen"})
            /\ UNCHANGED <<drvOpen, opened>>
    /\ UNCHANGED <<nThreads, closeFlag, tsfn, recvThread, alive, proc, jsPc, running,
                   loopPc, buf, tsfns, bridge, nRecv, delivered, hist>>

(***************************************************************************)
(* recv(callback), with StartThread()                                      *)
(***************************************************************************)
\* recv and StartThread without their test of the thread
NeedsThread_Always(rt) == TRUE
\* if (!recvThread.joinable()) in recv, if (this->recvThread.joinable()) return
\* in StartThread: a thread is created only when recvThread holds none
NeedsThread(rt) == rt # "joinable"

\* argIsFn: info[0] is a function; cb: that function;
\* threadOk: the std::thread constructor does not throw std::system_error
Recv(argIsFn, cb, threadOk) ==
    /\ JsCanCall
    /\ (~RecvGuard(handle_) /\ argIsFn) => Len(tsfns) < MaxRecvCalls
    /\ cb <= Len(tsfns) + 1     \* the JS functions are numbered in order of first use
    /\ IF RecvGuard(handle_)
       THEN /\ lastCall' = Call("recv", NotOpen, {})
            /\ UNCHANGED <<closeFlag, tsfn, recvThread, loopPc, nThreads, buf, tsfns,
                           hist>>
       ELSE IF ~argIsFn
       THEN /\ lastCall' = Call("recv",
                                Err("TypeError", 0, "Function expected as argument"), {})
            /\ UNCHANGED <<closeFlag, tsfn, recvThread, loopPc, nThreads, buf, tsfns,
                           hist>>
       ELSE /\ tsfns' = Append(tsfns, NewTsfn(cb))
            /\ tsfn' = Len(tsfns) + 1
            /\ IF NeedsThread(recvThread)
               THEN \* StartThread()
                    /\ closeFlag' = 0
                    /\ IF threadOk
                       THEN /\ recvThread' = "joinable"
                            /\ loopPc' = "check"
                            /\ nThreads' = nThreads + 1
                            /\ buf' = 0
                       ELSE UNCHANGED <<recvThread, loopPc, nThreads, buf>>
               ELSE UNCHANGED <<closeFlag, recvThread, loopPc, nThreads, buf>>
            /\ hist' = NoHist
            /\ lastCall' = Call("recv", Ok("String", <<>>), {})
    /\ UNCHANGED <<handle_, alive, proc, jsPc, running, bridge, drvOpen, opened,
                   nRecv, delivered>>
(***************************************************************************)
(* send({packet, addr})                                                    *)
(***************************************************************************)
\* the length check with the bound one byte too low
AddrTooShort_OffByOne(addrLen) ==
    addrLen < SIZEOF_WINDIVERT_ADDRESS - RESERVED_TAIL - 1
\* addrBuffer.Length() < (sizeof(WINDIVERT_ADDRESS) - 64)
AddrTooShort(addrLen) == addrLen < SIZEOF_WINDIVERT_ADDRESS - RESERVED_TAIL

InvalidArgument == Err("TypeError", 0, "Invalid addr buffer size")

\* send returning the length the driver stored instead of the BOOL
SendReturn_Length(send, pSendLen) == Ok("Number", <<pSendLen>>)
\* The value send() returns after WinDivertSend returned send (a BOOL) and
\* stored the number of bytes it accepted in pSendLen.
SendReturn(send, pSendLen) == Ok("Boolean", <<send>>)

\* verdict = 0: the driver accepts the whole packet; otherwise WinDivertSend
\* fails with GetLastError() = verdict
SendOutcome(argIsObj, payloadLen, addrLen, verdict) ==
    IF SendGuard(handle_) THEN Call("send", NotOpen, {})
    ELSE IF ~argIsObj
    THEN Call("send", Err("TypeError", 0, "Object expected"), {})
    ELSE IF AddrTooShort(addrLen)
    THEN Call("send", InvalidArgument, {})
    ELSE IF verdict # 0
    THEN Call("send",
              Err("SendFailed", verdict, ""), {"WinDivertSend"})
    ELSE Call("send",
              SendReturn(1, payloadLen), {"WinDivertSend"})

Send(argIsObj, payloadLen, addrLen, verdict) ==
    /\ JsCanCall
    /\ lastCall' = SendOutcome(argIsObj, payloadLen, addrLen, verdict)
    /\ UNCHANGED <<nThreads, handle_, closeFlag, tsfn, recvThread, alive, proc, jsPc, running,
                   loopPc, buf, tsfns, bridge, drvOpen, opened, nRecv,
                   delivered, hist>>

(***************************************************************************)
(* HelperCalcChecksums({packet}, flags)                                    *)
(***************************************************************************)
\* WINDIVERT_ADDRESS addr is declared without initializer (line 207): its
\* three flags <<UDPChecksum, TCPChecksum, IPChecksum>> hold whatever the
\* stack held: here all bits clear or all bits set.
AddrGarbage == {<<0, 0, 0>>, <<1, 1, 1>>}

\* What addr holds after WinDivertHelperCalcChecksums returned TRUE: the
\* helper sets the flag of each checksum it computed and leaves the others
\* as they were.  A 20-byte packet is a bare IPv4 header, a 40-byte one
\* carries a TCP header, none is UDP; flags = 1 asks for no IP checksum.
DriverChecksums(payloadLen, flags, addr0) ==
    <<addr0[1],
      IF payloadLen >= 40 THEN 1 ELSE addr0[2],
      IF flags = 1 THEN addr0[3] ELSE 1>>

\* the helper's return value is not checked
CalcOutcome_IgnoreFailure(argsOk, payloadLen, flags, verdict, addr0) ==
    IF ~argsOk
    THEN Call("calcChecksums", Err("TypeError", 0, "Invalid arguments"), {})
    ELSE Call("calcChecksums",
              Ok("Object", DriverChecksums(payloadLen, flags, addr0)),
              {"WinDivertHelperCalcChecksums"})
\* verdict = 0: the helper returns TRUE; otherwise it fails with GetLastError() = verdict
CalcOutcome(argsOk, payloadLen, flags, verdict, addr0) ==
    IF ~argsOk
    THEN Call("calcChecksums", Err("TypeError", 0, "Invalid arguments"), {})
    ELSE IF verdict # 0
    THEN Call("calcChecksums",
              Err("ChecksumFailed", verdict, ""), {"WinDivertHelperCalcChecksums"})
    ELSE Call("calcChecksums",
              Ok("Object", DriverChecksums(payloadLen, flags, addr0)),
              {"WinDivertHelperCalcChecksums"})

\* addr0: the content of addr before the helper is called; it is read only
\* when the helper succeeded, so the other calls are taken with one content
HelperCalcChecksums(argsOk, payloadLen, flags, verdict, addr0) ==
    /\ JsCanCall
    /\ (~argsOk \/ verdict # 0) => addr0 = <<0, 0, 0>>
    /\ lastCall' = CalcOutcome(argsOk, payloadLen, flags, verdict, addr0)
    /\ UNCHANGED <<nThreads, handle_, closeFlag, tsfn, recvThread, alive, proc, jsPc, running,
                   loopPc, buf, tsfns, bridge, drvOpen, opened, nRecv,
                   delivered, hist>>

(***************************************************************************)
(* close(), with StopThread()                                              *)
(***************************************************************************)
\* close and the destructor going on without StopThread()
StopThreadJoins_Never == FALSE
\* StopThread() finds the thread joinable: it sets the flag and joins.
StopThreadJoins == recvThread = "joinable"

\* The thread-safe functions after the part of StopThread() that follows the
\* join: if (this->tsfn) this->tsfn.Release()
AfterJoin(ts) == ReleaseTsfn(ts, tsfn)

\* Lines 294-307: WinDivertClose, then CloseHandle and the reset of handle_.
\* code = 0: WinDivertClose returns TRUE; otherwise GetLastError() = code.
CloseDriver(code) ==
    /\ jsPc' = "idle"
    /\ hist' = [hist EXCEPT !.closeCalled = TRUE, !.closeReturned = TRUE,
                            !.recvAtClose = IF hist.closeCalled /\ ~hist.closeReturned
                                            THEN @ ELSE nRecv]
    /\ IF code # 0
       THEN /\ lastCall' = Call("close", Err("CloseFailed", code, ""),
                                {"WinDivertClose"})
            /\ UNCHANGED <<handle_, drvOpen>>
       ELSE /\ lastCall' = Call("close", Ok("Boolean", <<1>>), {"WinDivertClose"})
            /\ drvOpen' = drvOpen \ {handle_}
            /\ handle_' = INVALID_HANDLE_VALUE

Close(code) ==
    /\ proc = "running"
    /\ alive
    /\ IF jsPc = "idle"
       THEN IF CloseGuard(handle_)
            THEN /\ lastCall' = Call("close", NotOpen, {})
                 /\ UNCHANGED <<handle_, closeFlag, recvThread, jsPc, loopPc, tsfns,
                                drvOpen, hist>>
            ELSE IF StopThreadJoins
            THEN \* this->closeFlag = 1; recvThread.join() blocks
                 /\ closeFlag' = 1
                 /\ jsPc' = "closeJoin"
                 /\ hist' = [hist EXCEPT !.closeCalled = TRUE, !.closeReturned = FALSE,
                                         !.recvAtClose = nRecv]
                 /\ UNCHANGED <<handle_, recvThread, loopPc, tsfns, drvOpen,
                                lastCall>>
            ELSE /\ CloseDriver(code)
                 /\ UNCHANGED <<closeFlag, recvThread, loopPc, tsfns>>
       ELSE \* recvThread.join() returns once ThreadFunction has returned
            /\ jsPc = "closeJoin"
            /\ loopPc = "finished"
            /\ recvThread' = "empty"
            /\ loopPc' = "none"
            /\ tsfns' = AfterJoin(tsfns)
            /\ CloseDriver(code)
            /\ UNCHANGED closeFlag
    /\ UNCHANGED <<nThreads, tsfn, alive, proc, running, buf, bridge, opened, nRecv,
                   delivered>>

(***************************************************************************)
(* ~WinDivert()                                                            *)
(***************************************************************************)
\* Lines 70-79: release of the handle and of the thread-safe function.
DestructorTail(ts) ==
    /\ jsPc' = "idle"
    /\ IF handle_ # INVALID_HANDLE_VALUE
       THEN drvOpen' = drvOpen \ {handle_} /\ handle_' = INVALID_HANDLE_VALUE
       ELSE UNCHANGED <<handle_, drvOpen>>
    /\ tsfns' = ReleaseTsfn(ts, tsfn)

Destructor ==
    /\ proc = "running"
    /\ IF jsPc = "idle"
       THEN /\ alive
            /\ running = <<>>
            /\ alive' = FALSE
            /\ IF StopThreadJoins
               THEN /\ closeFlag' = 1
                    /\ jsPc' = "dtorJoin"
                    /\ UNCHANGED <<handle_, recvThread, loopPc, tsfns, drvOpen>>
               ELSE /\ DestructorTail(tsfns)
                    /\ UNCHANGED <<closeFlag, recvThread, loopPc>>
       ELSE /\ jsPc = "dtorJoin"
            /\ loopPc = "finished"
            /\ recvThread' = "empty"
            /\ loopPc' = "none"
            /\ DestructorTail(AfterJoin(tsfns))
            /\ UNCHANGED <<closeFlag, alive>>
    /\ UNCHANGED <<nThreads, tsfn, proc, running, buf, bridge, opened, nRecv,
                   delivered, lastCall, hist>>
(***************************************************************************)
(* ThreadFunction(): the capture loop                                      *)
(***************************************************************************)
\* Top of the loop: the two checks made before each receive.
LoopCheck ==
    /\ proc = "running"
    /\ loopPc \in {"check", "continue"}
    /\ loopPc' = IF closeFlag = 1 THEN "exit"
                 ELSE IF handle_ = INVALID_HANDLE_VALUE THEN "exit"
                 ELSE "recv"
    /\ UNCHANGED <<nThreads, handle_, closeFlag, tsfn, recvThread, alive, proc, jsPc, running,
                   buf, tsfns, bridge, drvOpen, opened, nRecv, delivered,
                   lastCall, hist>>

\* WinDivertRecv returns TRUE with the next packet in packet[].
LoopRecvPacket ==
    /\ proc = "running"
    /\ loopPc = "recv"
    /\ handle_ \in drvOpen
    /\ nRecv < MaxPackets
    /\ nRecv' = nRecv + 1
    /\ buf' = nRecv + 1
    /\ loopPc' = "call"
    /\ UNCHANGED <<nThreads, handle_, closeFlag, tsfn, recvThread, alive, proc, jsPc, running,
                   tsfns, bridge, drvOpen, opened, delivered, lastCall, hist>>

\* a failed receive leaving the loop
AfterRecvError_Break == "exit"
\* Where the loop goes after a failed receive: the continue statement of line
\* 382, from which the next iteration starts with the two checks.
AfterRecvError == "continue"

\* WinDivertRecv returns FALSE: the error is logged and the loop continues.
\* A receive on a handle the driver has closed fails at once.
LoopRecvError ==
    /\ proc = "running"
    /\ loopPc = "recv"
    /\ loopPc' = AfterRecvError
    /\ UNCHANGED <<nThreads, handle_, closeFlag, tsfn, recvThread, alive, proc, jsPc, running,
                   buf, tsfns, bridge, drvOpen, opened, nRecv, delivered, lastCall, hist>>

NapiStatus == {"napi_ok", "napi_closing"}

\* a queue that puts the newest call first
Push_Front(q, t, pkt) == <<[t |-> t, pkt |-> pkt, rcv |-> nRecv]>> \o q
\* The queue after a call was queued on thread-safe function t: the lambda
\* holds pkt, its own copy of packet[], packetLen and addr; rcv is the number
\* of the receive it was made for.
Push(q, t, pkt) == Append(q, [t |-> t, pkt |-> pkt, rcv |-> nRecv])

\* The lambda captures packet, packetLen and addr by value, then
\* tsfn.BlockingCall(callback) queues it (the queue is unlimited, so the call
\* does not wait) or fails: status is what N-API answers.
LoopCall(status) ==
    /\ proc = "running"
    /\ loopPc = "call"
    /\ tsfns[tsfn].closing => status # "napi_ok"
    /\ IF status = "napi_ok"
       THEN /\ bridge' = Push(bridge, tsfn, buf)
            /\ loopPc' = "check"
            /\ UNCHANGED hist
       ELSE /\ loopPc' = "exit"
            /\ hist' = [hist EXCEPT !.handoffFailed = TRUE]
            /\ UNCHANGED bridge
    /\ UNCHANGED <<nThreads, handle_, closeFlag, tsfn, recvThread, alive, proc, jsPc, running,
                   buf, tsfns, drvOpen, opened, nRecv, delivered, lastCall>>

\* After the loop: the release of the thread-safe function, then
\* if (recvThread.joinable()) recvThread.join() made by the capture thread on
\* its own std::thread: join() throws std::system_error
\* (resource_deadlock_would_occur), nothing catches it in the thread, and
\* std::terminate ends the process.
LoopExit ==
    /\ proc = "running"
    /\ loopPc = "exit"
    /\ tsfns' = ReleaseTsfn(tsfns, tsfn)
    /\ IF recvThread = "joinable"
       THEN proc' = "terminated" /\ UNCHANGED <<loopPc, nThreads>>
       ELSE loopPc' = "finished" /\ nThreads' = nThreads - 1 /\ UNCHANGED proc
    /\ UNCHANGED <<handle_, closeFlag, tsfn, recvThread, alive, jsPc, running, buf,
                   bridge, drvOpen, opened, nRecv, delivered, lastCall, hist>>

(***************************************************************************)
(* The JS thread's event loop: dispatch of the queued calls                *)
(***************************************************************************)
\* The JS thread can take the next queued call: it is in its event loop.
CanDispatch == jsPc = "idle" /\ running = <<>>

\* the lambda holding a reference to packet[] and addr instead of a copy
Captured_ByReference(item, b) == b
\* What the lambda hands to Buffer::Copy when it runs: [packet, packetLen,
\* addr] are captured by value, so it is the copy made when the lambda was
\* created, whatever packet[] (b) holds by now.
Captured(item, b) == item.pkt

\* The call at the head of the queue runs: the lambda copies the captured
\* packet and address into Buffers and calls the JS callback with them.
Deliver ==
    /\ proc = "running"
    /\ CanDispatch
    /\ bridge # <<>>
    /\ running' = Append(running, Head(bridge))
    /\ delivered' = Append(delivered, [cb |-> tsfns[Head(bridge).t].cb,
                                       t |-> Head(bridge).t,
                                       pkt |-> Captured(Head(bridge), buf),
                                       rcv |-> Head(bridge).rcv])
    /\ bridge' = Tail(bridge)
    /\ UNCHANGED <<nThreads, handle_, closeFlag, tsfn, recvThread, alive, proc, jsPc, loopPc,
                   buf, tsfns, drvOpen, opened, nRecv, lastCall, hist>>

\* jsCallback.Call returns.
CallbackReturn ==
    /\ proc = "running"
    /\ jsPc = "idle"
    /\ running # <<>>
    /\ running' = SubSeq(running, 1, Len(running) - 1)
    /\ UNCHANGED <<nThreads, handle_, closeFlag, tsfn, recvThread, alive, proc, jsPc, loopPc,
                   buf, tsfns, bridge, drvOpen, opened, nRecv, delivered,
                   lastCall, hist>>

\* A thread-safe function with no thread left and an empty queue closes.
TsfnFinalize(t) ==
    /\ proc = "running"
    /\ jsPc = "idle"
    /\ tsfns[t].threadCount = 0
    /\ ~tsfns[t].closing
    /\ Pending(t) = {}
    /\ tsfns' = [tsfns EXCEPT ![t].closing = TRUE]
    /\ UNCHANGED <<nThreads, handle_, closeFlag, tsfn, recvThread, alive, proc, jsPc, running,
                   loopPc, buf, bridge, drvOpen, opened, nRecv, delivered,
                   lastCall, hist>>

(***************************************************************************)
(* Specification                                                           *)
(***************************************************************************)
Next ==
    \/ \E code \in {0} \cup OpenErrorCodes : Open(code)
    \/ \E argIsFn \in BOOLEAN, cb \in Callbacks, threadOk \in BOOLEAN :
          Recv(argIsFn, cb, threadOk)
    \/ \E argIsObj \in BOOLEAN, payloadLen \in PayloadLens, addrLen \in AddrLens,
          verdict \in {0} \cup DriverErrorCodes :
          Send(argIsObj, payloadLen, addrLen, verdict)
    \/ \E argsOk \in BOOLEAN, payloadLen \in PayloadLens, flags \in ChecksumFlags,
          verdict \in {0} \cup DriverErrorCodes, addr0 \in AddrGarbage :
          HelperCalcChecksums(argsOk, payloadLen, flags, verdict, addr0)
    \/ \E code \in {0} \cup DriverErrorCodes : Close(code)
    \/ Destructor
    \/ LoopCheck
    \/ LoopRecvPacket
    \/ LoopRecvError
    \/ \E status \in NapiStatus : LoopCall(status)
    \/ LoopExit
    \/ Deliver
    \/ CallbackReturn
    \/ \E t \in 1..Len(tsfns) : TsfnFinalize(t)

Spec == Init /\ [][Next]_vars

\* The scheduler runs a thread that can take a step; the driver is not
\* obliged to produce packets, and the JS program is not obliged to call.
FairSpec ==
    /\ Spec
    /\ WF_vars(LoopCheck)
    /\ WF_vars(\E status \in NapiStatus : LoopCall(status))
    /\ WF_vars(LoopExit)
    /\ WF_vars(Deliver)
    /\ WF_vars(CallbackReturn)
    /\ WF_vars(jsPc = "closeJoin" /\ \E code \in {0} \cup DriverErrorCodes : Close(code))
    /\ WF_vars(jsPc = "dtorJoin" /\ Destructor)

TypeOK ==
    /\ handle_ \in {INVALID_HANDLE_VALUE, DRIVER_HANDLE}
    /\ opened \in BOOLEAN
    /\ closeFlag \in {0, 1}
    /\ tsfn \in 0..MaxRecvCalls
    /\ recvThread \in {"empty", "joinable"}
    /\ proc \in {"running", "terminated"}
    /\ jsPc \in {"idle", "closeJoin", "dtorJoin"}
    /\ loopPc \in {"none", "check", "recv", "continue", "call", "exit", "finished"}
    /\ nRecv \in 0..MaxPackets
    /\ Len(tsfns) <= MaxRecvCalls
    /\ nThreads \in 0..MaxRecvCalls

(***************************************************************************)
(* Steps of the API, for the properties below                              *)
(***************************************************************************)
OpenCodes == {0} \cup OpenErrorCodes
Verdicts == {0} \cup DriverErrorCodes

OpenStep == \E code \in OpenCodes : Open(code)
RecvStep == \E argIsFn \in BOOLEAN, cb \in Callbacks, threadOk \in BOOLEAN :
               Recv(argIsFn, cb, threadOk)
SendStep == \E argIsObj \in BOOLEAN, payloadLen \in PayloadLens, addrLen \in AddrLens,
               verdict \in Verdicts : Send(argIsObj, payloadLen, addrLen, verdict)
CalcStep == \E argsOk \in BOOLEAN, payloadLen \in PayloadLens, flags \in ChecksumFlags,
               verdict \in Verdicts, addr0 \in AddrGarbage :
               HelperCalcChecksums(argsOk, payloadLen, flags, verdict, addr0)
CloseStep == \E code \in Verdicts : Close(code)

\* Everything of the session, its capture thread, its registrations and the
\* driver: all the state an API call could have a side effect on.
effectVars == <<handle_, closeFlag, tsfn, recvThread, alive, proc, jsPc, running,
                loopPc, nThreads, buf, tsfns, bridge, drvOpen, opened, nRecv, delivered>>

SessionClosed == handle_ = INVALID_HANDLE_VALUE
SessionOpen == handle_ # INVALID_HANDLE_VALUE
LoopRunning == loopPc \in {"check", "recv", "continue", "call"}

C5_ClosedSessionRejects ==
    [][(SessionClosed /\ (SendStep \/ RecvStep \/ CloseStep))
          => /\ lastCall'.op \in {"send", "recv", "close"}
             /\ lastCall'.result = NotOpen
             /\ lastCall'.drv = {}
             /\ UNCHANGED effectVars]_vars

\* a close() answered NotOpen on a session that was opened and closed before,
\* with its callback registration still in place
C5_Witness ==
    /\ alive
    /\ opened
    /\ SessionClosed
    /\ tsfn # 0
    /\ hist.closeReturned
    /\ lastCall.op = "close"
    /\ lastCall.result = NotOpen

(***************************************************************************)
(* C6: open on an Open session fails with AlreadyOpen, does not call       *)
(* WinDivertOpen and leaves handle, capture loop and registration as they  *)
(* were; a WinDivertOpen that fails on a Closed session leaves it Closed,  *)
(* whatever the error code.                                                *)
(***************************************************************************)
C6_OpenGuards ==
    [][\A code \in OpenCodes :
          /\ (SessionOpen /\ Open(code))
                => /\ lastCall'.result = AlreadyOpen
                   /\ lastCall'.drv = {}
                   /\ UNCHANGED effectVars
          /\ (SessionClosed /\ code # 0 /\ Open(code))
                => /\ lastCall'.result.tag = "Err"
                   /\ lastCall'.result.kind = "OpenFailed"
                   /\ lastCall'.result.code = code
                   /\ SessionClosed'
                   /\ UNCHANGED effectVars]_vars

\* open() answered AlreadyOpen while a capture loop was running
C6_Witness ==
    /\ lastCall.op = "open"
    /\ lastCall.result = AlreadyOpen
    /\ SessionOpen
    /\ LoopRunning
    /\ tsfn # 0

(***************************************************************************)
(* C7, as stated: HelperCalcChecksums before a successful open fails with  *)
(* NotOpen and has no side effect.                                         *)
(***************************************************************************)
C7_Original ==
    [][(~opened /\ CalcStep)
          => /\ lastCall'.result = NotOpen
             /\ UNCHANGED effectVars]_vars

(***************************************************************************)
(* C7, amended: HelperCalcChecksums before a successful open does not      *)
(* fail with NotOpen: with valid arguments it returns a checksum triple    *)
(* when the driver's helper succeeds and ChecksumFailed(code) when the     *)
(* helper fails, and it has no side effect.                                *)
(***************************************************************************)
C7_CalcBeforeOpen ==
    [][\A argsOk \in BOOLEAN, payloadLen \in PayloadLens, flags \in ChecksumFlags,
          verdict \in Verdicts, addr0 \in AddrGarbage :
          (~opened /\ HelperCalcChecksums(argsOk, payloadLen, flags, verdict, addr0))
             => /\ lastCall'.result # NotOpen
                /\ (argsOk /\ verdict = 0)
                      => /\ lastCall'.result.tag = "Ok"
                         /\ lastCall'.result.kind = "Object"
                         /\ Len(lastCall'.result.val) = 3
                /\ (argsOk /\ verdict # 0)
                      => lastCall'.result = Err("ChecksumFailed", verdict, "")
                /\ UNCHANGED effectVars]_vars

\* a checksum triple was returned on a session that was never opened
C7_Witness ==
    /\ opened = FALSE
    /\ SessionClosed
    /\ lastCall.op = "calcChecksums"
    /\ lastCall.result.tag = "Ok"
    /\ lastCall.result.kind = "Object"

(***************************************************************************)
(* C8: the outcome of HelperCalcChecksums depends only on (payload, flags) *)
(* and the driver's verdict: a call returns what every call with the same  *)
(* packet, flags and verdict returns, whatever else differs (the state of  *)
(* the session, the content of the stack), and the call leaves handle,     *)
(* flag, capture loop and registration unchanged.                          *)
(***************************************************************************)
C8_ChecksumsStateless ==
    [][\A payloadLen \in PayloadLens, flags \in ChecksumFlags, verdict \in Verdicts,
          addr0 \in AddrGarbage :
          HelperCalcChecksums(TRUE, payloadLen, flags, verdict, addr0)
             => /\ \A other \in AddrGarbage :
                      lastCall'.result =
                          CalcOutcome(TRUE, payloadLen, flags, verdict, other).result
                /\ UNCHANGED effectVars]_vars

\* The address buffer lengths below and from sizeof(WINDIVERT_ADDRESS) - 64
ShortAddrLens == {a \in AddrLens : a < SIZEOF_WINDIVERT_ADDRESS - RESERVED_TAIL}
ValidAddrLens == AddrLens \ ShortAddrLens

(***************************************************************************)
(* C9: on an Open session, send with an address buffer shorter than        *)
(* sizeof(WINDIVERT_ADDRESS) - 64 fails with the invalid-argument error,   *)
(* WinDivertSend is not called, and the session stays Open and unchanged.  *)
(***************************************************************************)
C9_ShortAddressRejected ==
    [][\A payloadLen \in PayloadLens, addrLen \in ShortAddrLens, verdict \in Verdicts :
          (SessionOpen /\ Send(TRUE, payloadLen, addrLen, verdict))
             => /\ lastCall'.result = InvalidArgument
                /\ "WinDivertSend" \notin lastCall'.drv
                /\ SessionOpen'
                /\ UNCHANGED effectVars]_vars

\* a send was rejected for its address buffer on an Open session
C9_Witness ==
    /\ SessionOpen
    /\ lastCall.op = "send"
    /\ lastCall.result = InvalidArgument
    /\ lastCall.drv = {}

(***************************************************************************)
(* C10, as stated: on an Open session with a valid address buffer, send    *)
(* returns the number of bytes the driver accepted when the driver accepts *)
(* the packet, fails with SendFailed(code) when the driver rejects it, and *)
(* the session stays Open.                                                 *)
(***************************************************************************)
C10_Original ==
    [][\A payloadLen \in PayloadLens, addrLen \in ValidAddrLens, verdict \in Verdicts :
          (SessionOpen /\ Send(TRUE, payloadLen, addrLen, verdict))
             => /\ verdict = 0 => lastCall'.result = Ok("Number", <<payloadLen>>)
                /\ verdict # 0 => lastCall'.result = Err("SendFailed", verdict, "")
                /\ SessionOpen'
                /\ UNCHANGED effectVars]_vars

(***************************************************************************)
(* C10, amended: on an Open session with a valid address buffer, send      *)
(* returns the boolean true when the driver accepts the packet (the number *)
(* of bytes accepted is not returned), fails with SendFailed(code) when    *)
(* the driver rejects it, and the session stays Open.                      *)
(***************************************************************************)
C10_SendResult ==
    [][\A payloadLen \in PayloadLens, addrLen \in ValidAddrLens, verdict \in Verdicts :
          (SessionOpen /\ Send(TRUE, payloadLen, addrLen, verdict))
             => /\ verdict = 0 => lastCall'.result = Ok("Boolean", <<1>>)
                /\ verdict # 0 => lastCall'.result = Err("SendFailed", verdict, "")
                /\ lastCall'.drv = {"WinDivertSend"}
                /\ SessionOpen'
                /\ UNCHANGED effectVars]_vars

\* a send was accepted by the driver on an Open session
C10_Witness ==
    /\ SessionOpen
    /\ lastCall.op = "send"
    /\ lastCall.result.tag = "Ok"
    /\ lastCall.drv = {"WinDivertSend"}

(***************************************************************************)
(* C2: close() does not wait on a receive that only a future packet can    *)
(* unblock: whenever close() waits in join() for a capture loop that is    *)
(* inside WinDivertRecv, the handle of that receive has been invalidated,  *)
(* so that the receive returns.                                            *)
(***************************************************************************)
C2_CloseUnblocksReceive ==
    (jsPc = "closeJoin" /\ loopPc = "recv") => handle_ \notin drvOpen

C4_ExactlyOncePerPacket ==
    (/\ Len(tsfns) = 1
     /\ hist.closeCalled
     /\ ~hist.handoffFailed
     /\ (hist.closeReturned \/ proc = "terminated"))
        => /\ Len(delivered) = hist.recvAtClose
           /\ \A i \in 1..Len(delivered) : delivered[i].pkt = i

(***************************************************************************)
(* C11: whenever recv(callback) returns successfully on an Open session, a *)
(* capture loop of the session is running and not cancelled; in particular *)
(* recv does not report success when the thread could not be created, or   *)
(* when the previous loop has left its loop without having been joined.    *)
(***************************************************************************)
C11_RecvStartsLoop ==
    [][(SessionOpen /\ RecvStep /\ lastCall'.result.tag = "Ok")
          => (LoopRunning' /\ closeFlag' = 0 /\ nThreads' = 1)]_vars

(***************************************************************************)
(* C12: the callback registered by the latest recv is the sole consumer:   *)
(* every callback invocation goes to the function registered last, none to *)
(* a function registered before it, and a recv on a session whose capture  *)
(* loop is running starts no second loop.                                  *)
(***************************************************************************)
C12_SoleConsumer ==
    [][/\ Deliver => tsfns[Head(bridge).t].cb = tsfns[tsfn].cb
       /\ (RecvStep /\ LoopRunning) => (nThreads' = nThreads /\ loopPc' = loopPc)]_vars

(***************************************************************************)
(* C13: delivery back-pressures the capture loop: at every moment at most  *)
(* one received packet is awaiting or undergoing delivery, and the loop is *)
(* not inside its next receive while a packet is.                          *)
(***************************************************************************)
C13_BackPressure ==
    /\ Len(bridge) + Len(running) <= 1
    /\ loopPc = "recv" => (bridge = <<>> /\ running = <<>>)

(***************************************************************************)
(* C14: in every reachable state at most one capture thread exists for the *)
(* session, and a capture loop is running only while the session holds a   *)
(* valid driver handle.                                                    *)
(***************************************************************************)
C14_OneLoopWhileOpen ==
    /\ nThreads <= 1
    /\ LoopRunning => SessionOpen

\* a second recv has returned on a session whose capture loop was running:
\* two registrations, one thread
C14_Witness ==
    /\ Len(tsfns) = 2
    /\ lastCall.op = "recv"
    /\ lastCall.result.tag = "Ok"
    /\ LoopRunning
    /\ nThreads = 1

(***************************************************************************)
(* C15: close and the destructor call the driver's close only when no      *)
(* capture thread exists any more, so never while the loop is inside a     *)
(* receive on the handle, and the loop never enters a receive on a handle  *)
(* the driver has closed.                                                  *)
(***************************************************************************)
DriverCloseInvoked ==
    \/ CloseStep /\ jsPc' = "idle" /\ "WinDivertClose" \in lastCall'.drv
    \/ Destructor /\ handle_ # INVALID_HANDLE_VALUE /\ handle_' = INVALID_HANDLE_VALUE

C15_CloseAfterLoop ==
    [][/\ DriverCloseInvoked => (nThreads = 0 /\ ~LoopRunning)
       /\ loopPc' = "recv" => handle_' \in drvOpen']_vars

\* close() has stopped at the join with the loop inside WinDivertRecv: the
\* driver still has the handle open
C15_Witness ==
    /\ jsPc = "closeJoin"
    /\ hist.closeCalled
    /\ loopPc = "recv"
    /\ nThreads = 1
    /\ handle_ \in drvOpen

(***************************************************************************)
(* C16: a failed receive does not end the capture loop and delivers        *)
(* nothing: after it the loop is still running, nothing was queued or      *)
(* delivered, and with the flag clear and the handle valid its next step   *)
(* is another receive; the loop leaves only from its two checks (flag set, *)
(* handle invalid) or on a failed hand-off.                                *)
(***************************************************************************)
C16_RecvErrorContinues ==
    [][/\ LoopRecvError
          => /\ LoopRunning'
             /\ bridge' = bridge /\ delivered' = delivered /\ running' = running
             /\ nThreads' = nThreads /\ proc' = proc
       /\ (loopPc = "continue" /\ LoopCheck
              /\ closeFlag = 0 /\ handle_ # INVALID_HANDLE_VALUE)
          => loopPc' = "recv"
       /\ (LoopRunning /\ loopPc' = "exit")
          => \/ loopPc \in {"check", "continue"}
                  /\ (closeFlag = 1 \/ handle_ = INVALID_HANDLE_VALUE)
             \/ loopPc = "call" /\ hist'.handoffFailed]_vars

\* a receive has failed on an Open session that is not being closed: the
\* loop is at its continue statement
C16_Witness ==
    /\ loopPc = "continue"
    /\ proc = "running"
    /\ closeFlag = 0
    /\ SessionOpen

(***************************************************************************)
(* C17: when the capture loop has left its loop, it releases its           *)
(* thread-safe function and ThreadFunction returns: the process goes on,   *)
(* the thread is finished and still joinable for close or the destructor.  *)
(***************************************************************************)
C17_LoopExitCompletes ==
    [][LoopExit
          => /\ tsfn # 0 => tsfns'[tsfn].releases = tsfns[tsfn].releases + 1
             /\ proc' = "running"
             /\ loopPc' = "finished"
             /\ recvThread' = "joinable"]_vars

(***************************************************************************)
(* C18: each callback invocation is handed the packet the driver returned  *)
(* for the receive it was queued for (the k-th receive returns packet k),  *)
(* also when packet[] has been overwritten by a later receive before the   *)
(* callback runs.                                                          *)
(***************************************************************************)
C18_SnapshotDelivered ==
    \A i \in 1..Len(delivered) : delivered[i].pkt = delivered[i].rcv

\* the callback is running for a packet while packet[] already holds the
\* packet of a later receive
C18_Witness ==
    /\ running # <<>>
    /\ delivered # <<>>
    /\ delivered[Len(delivered)].rcv < nRecv
    /\ buf = nRecv

(***************************************************************************)
(* C19: every thread-safe function created by recv is released exactly     *)
(* once over the life of the session: none is ever released twice, and     *)
(* when the destructor has run each of them, the replaced ones included,   *)
(* has been released.                                                      *)
(***************************************************************************)
C19_ReleasedExactlyOnce ==
    /\ \A t \in 1..Len(tsfns) : tsfns[t].releases <= 1
    /\ (~alive /\ jsPc = "idle") => \A t \in 1..Len(tsfns) : tsfns[t].releases = 1

(***************************************************************************)
(* C20: when WinDivertClose fails, close() returns the driver's error with *)
(* the capture loop stopped and the callback registration released, the    *)
(* handle retained and the session still Open (so that a later close is    *)
(* accepted and a later recv starts a new loop); the session becomes       *)
(* Closed by close() only when WinDivertClose succeeds.                    *)
(***************************************************************************)
C20_FailedCloseKeepsOpen ==
    [][/\ (CloseStep /\ jsPc' = "idle" /\ lastCall'.result.kind = "CloseFailed")
          => /\ lastCall'.result.code \in DriverErrorCodes
             /\ ~LoopRunning' /\ nThreads' = 0 /\ NeedsThread(recvThread')
             /\ tsfn # 0 => tsfns'[tsfn].releases = 1
             /\ handle_' = handle_ /\ SessionOpen' /\ drvOpen' = drvOpen
             /\ ~CloseGuard(handle_')
       /\ (CloseStep /\ SessionOpen /\ SessionClosed')
          => lastCall'.result = Ok("Boolean", <<1>>)]_vars
====
